---------------------------- MODULE Spec2Model ----------------------------
(***************************************************************************)
(* A model of the /bfhl computation service of src/main.py: the request    *)
(* dispatcher, the numeric kernels, the AI answer resolver with its        *)
(* outbound provider call, and the three exception handlers that build     *)
(* the response envelope.                                                  *)
(*                                                                         *)
(* Representation.                                                         *)
(*   - A Python str that the code inspects (the AI question, the text of   *)
(*     the provider) is a sequence of one-character strings.  Messages     *)
(*     the code only passes along are TLA+ strings.                        *)
(*   - An Optional field is None (the empty tuple) or Some(v) (<<v>>).     *)
(*   - Python's int is unbounded.  The terms of the Fibonacci sequence     *)
(*     outgrow 32-bit integers, so they are little-endian                  *)
(*     sequences of limbs in base LIMB (zero is the empty sequence); all   *)
(*     other integers stay small and are plain integers.                   *)
(*   - A JSON value of the provider is a record tagged by its type.        *)
(***************************************************************************)
EXTENDS Integers, Sequences, FiniteSets, TLC

VARIABLES
    GEMINI_API_KEY,   \* TRUE iff the provider key is configured (line 14)
    pc,               \* "idle" | "calling" (blocked in requests.post) | "done"
    req,              \* the request being served
    provider,         \* what the provider did with the outbound call
    outboundCalls,    \* outbound provider calls made for this request
    invoked,          \* kernels and resolvers the handler has invoked
    response          \* the HTTP response: status code and JSON content

vars == <<GEMINI_API_KEY, pc, req, provider, outboundCalls, invoked, response>>

----------------------------------------------------------------------------
(* Bounds of the model. *)

FibDense == 300      \* every n in -FibSlack..FibDense is a fibonacci input
FibSlack == 1        \* inputs this far outside [0, MAX_FIB] and near MAX_FIB
ElemMax == 4         \* elements of the short arrays range over -ElemMax..ElemMax
MaxArrLen == 3       \* longest short array
ArrSlack == 1        \* long arrays have MAX_ARR-ArrSlack..MAX_ARR+ArrSlack elements
PrimeBelow == 1000   \* is_prime is tried on every x in -PrimeBelow..PrimeAbove
PrimeAbove == 10000
QSlack == 1          \* questions have up to MAX_Q+QSlack characters

(* Constants of the program. *)

MAX_FIB == 1000
MAX_ARR == 1000
MAX_Q == 300
OFFICIAL_EMAIL == "nishant3892.beai23@chitkara.edu.in"
LIMB == 10^9

----------------------------------------------------------------------------
(* Optional values. *)

None == <<>>
Some(v) == <<v>>
Val(o) == o[1]

----------------------------------------------------------------------------
(* Python str: strip, lower, and the regular expression of first_word. *)

LowerChars == <<"a","b","c","d","e","f","g","h","i","j","k","l","m","n","o","p","q","r","s","t","u","v","w","x","y","z">>
UpperChars == <<"A","B","C","D","E","F","G","H","I","J","K","L","M","N","O","P","Q","R","S","T","U","V","W","X","Y","Z">>
Whitespace == {" ", "\t", "\n"}

IsLetter(c) == \E i \in 1..26 : c = LowerChars[i] \/ c = UpperChars[i]

lower_char(c) ==
    IF \E i \in 1..26 : c = UpperChars[i]
    THEN LowerChars[CHOOSE i \in 1..26 : c = UpperChars[i]]
    ELSE c

lower(s) == [i \in 1..Len(s) |-> lower_char(s[i])]

strip(s) ==
    LET keep == {i \in 1..Len(s) : s[i] \notin Whitespace}
    IN IF keep = {} THEN <<>>
       ELSE LET first == CHOOSE i \in keep : \A j \in keep : i <= j
                last == CHOOSE i \in keep : \A j \in keep : j <= i
            IN SubSeq(s, first, last)

(* re.search for one or more letters followed by any letters and hyphens:
   the leftmost letter and the longest run of letters and hyphens that
   starts there. *)
first_word_str(text) ==
    LET starts == {i \in 1..Len(text) : IsLetter(text[i])}
    IN IF starts = {} THEN <<>>
       ELSE LET b == CHOOSE i \in starts : \A j \in starts : i <= j
                ends == {e \in b..Len(text) :
                            \A k \in b..e : IsLetter(text[k]) \/ text[k] = "-"}
                e == CHOOSE i \in ends : \A j \in ends : j <= i
            IN SubSeq(text, b, e)

KNOWN_QUESTION == <<"w","h","a","t"," ","i","s"," ","t","h","e"," ","c","a","p","i","t","a","l"," ","c","i","t","y"," ","o","f"," ","m","a","h","a","r","a","s","h","t","r","a","?">>
KNOWN_ANSWER == <<"M","u","m","b","a","i">>

----------------------------------------------------------------------------
(* Numeric kernels. *)

abs(x) == IF x < 0 THEN 0 - x ELSE x

(* Mutation: the trial divisors stop short of the square root. *)
RECURSIVE is_prime_loop_mut(_, _)
is_prime_loop_mut(n, i) ==
    IF i * i < n
    THEN IF n % i = 0 \/ n % (i + 2) = 0
         THEN FALSE
         ELSE is_prime_loop_mut(n, i + 6)
    ELSE TRUE

RECURSIVE is_prime_loop(_, _)
is_prime_loop(n, i) ==
    IF i * i <= n
    THEN IF n % i = 0 \/ n % (i + 2) = 0
         THEN FALSE
         ELSE is_prime_loop(n, i + 6)
    ELSE TRUE

is_prime(n) ==
    IF n <= 1 THEN FALSE
    ELSE IF n <= 3 THEN TRUE
    ELSE IF n % 2 = 0 \/ n % 3 = 0 THEN FALSE
    ELSE is_prime_loop(n, 5)

(* Python's int addition on limb sequences. *)
RECURSIVE AddLimbs(_, _, _, _, _)
AddLimbs(a, b, i, carry, acc) ==
    IF i > Len(a) /\ i > Len(b)
    THEN IF carry = 0 THEN acc ELSE Append(acc, carry)
    ELSE LET s == (IF i <= Len(a) THEN a[i] ELSE 0)
                  + (IF i <= Len(b) THEN b[i] ELSE 0) + carry
         IN AddLimbs(a, b, i + 1, s \div LIMB, Append(acc, s % LIMB))

IntAdd(a, b) == AddLimbs(a, b, 1, 0, <<>>)

PyZero == <<>>
PyOne == <<1>>

fib_next(seq) == IntAdd(seq[Len(seq)], seq[Len(seq) - 1])

(* Mutation: the loop runs while len(seq) <= n. *)
RECURSIVE fib_loop_mut(_, _, _)
fib_loop_mut(seq, n, fuel) ==
    IF fuel = 0 \/ ~(Len(seq) <= n) THEN seq
    ELSE IF fuel = 1 THEN Append(seq, fib_next(seq))
    ELSE fib_loop_mut(fib_loop_mut(seq, n, fuel \div 2), n,
                      fuel - (fuel \div 2))

(* The loop of lines 58-59, run for at most fuel iterations.  The first
   half of the iterations runs before the second, so this is the loop
   itself; halving only keeps the evaluation shallow. *)
RECURSIVE fib_loop(_, _, _)
fib_loop(seq, n, fuel) ==
    IF fuel = 0 \/ ~(Len(seq) < n) THEN seq
    ELSE IF fuel = 1 THEN Append(seq, fib_next(seq))
    ELSE fib_loop(fib_loop(seq, n, fuel \div 2), n, fuel - (fuel \div 2))

fibonacci_series(n) ==
    IF n = 0 THEN <<>>
    ELSE IF n = 1 THEN <<PyZero>>
    ELSE fib_loop(<<PyZero, PyOne>>, n, n)

(* math.gcd: Euclid's algorithm on the absolute values; gcd(0, 0) = 0. *)
RECURSIVE euclid(_, _)
euclid(a, b) == IF b = 0 THEN a ELSE euclid(b, a % b)

gcd(a, b) == euclid(abs(a), abs(b))

lcm(a, b) ==
    IF a = 0 \/ b = 0 THEN 0
    ELSE abs(a * b) \div gcd(a, b)

(* The loops of lines 77-78 and 86-87 over nums[i..j], left to right: the
   elements i..m are folded, to an integer, before the elements m+1..j. *)
RECURSIVE lcm_fold(_, _, _, _)
lcm_fold(result, nums, i, j) ==
    IF i > j THEN result
    ELSE IF i = j THEN lcm(result, abs(nums[i]))
    ELSE LET m == (i + j) \div 2
             left == lcm_fold(result, nums, i, m)
         IN IF left \in Int THEN lcm_fold(left, nums, m + 1, j) ELSE left

lcm_of_list(nums) ==
    IF nums = <<>> THEN 0 ELSE lcm_fold(abs(nums[1]), nums, 2, Len(nums))

RECURSIVE hcf_fold(_, _, _, _)
hcf_fold(result, nums, i, j) ==
    IF i > j THEN result
    ELSE IF i = j THEN gcd(result, abs(nums[i]))
    ELSE LET m == (i + j) \div 2
             left == hcf_fold(result, nums, i, m)
         IN IF left \in Int THEN hcf_fold(left, nums, m + 1, j) ELSE left

(* Mutation: the fold skips the second element. *)
hcf_of_list_mut(nums) ==
    IF nums = <<>> THEN 0 ELSE hcf_fold(abs(nums[1]), nums, 3, Len(nums))

hcf_of_list(nums) ==
    IF nums = <<>> THEN 0 ELSE hcf_fold(abs(nums[1]), nums, 2, Len(nums))

prime_filter(arr) == SelectSeq(arr, is_prime)


----------------------------------------------------------------------------
(* What a Python call ends in: a returned value, a raised HTTPException,
   any other exception, or (for the resolver) the outbound call, on which
   the handler blocks.  Every outcome carries the functions invoked. *)

Return(v, inv) == [kind |-> "return", value |-> v, invoked |-> inv]
RaiseHTTP(code, detail, inv) ==
    [kind |-> "http_exception", status_code |-> code, detail |-> detail,
     invoked |-> inv]
RaiseOther(name, inv) == [kind |-> "exception", name |-> name, invoked |-> inv]
Post(inv) == [kind |-> "post", invoked |-> inv]

----------------------------------------------------------------------------
(* JSON values of the provider's response body, and Python's subscripting
   of them.  JExc stands for the KeyError, IndexError or TypeError that a
   subscript raises. *)

JNull == [t |-> "null", v |-> 0]
JNum(n) == [t |-> "num", v |-> n]
JStr(s) == [t |-> "str", v |-> s]
JArr(a) == [t |-> "arr", v |-> a]
JObj(o) == [t |-> "obj", v |-> o]
JExc == [t |-> "exc", v |-> 0]
EmptyObj == [k \in {} |-> JNull]

GetKey(d, key) ==
    IF d.t = "obj" /\ key \in DOMAIN d.v THEN d.v[key] ELSE JExc

GetIdx(d, i) ==
    IF d.t = "arr" /\ i < Len(d.v) THEN d.v[i + 1]
    ELSE IF d.t = "str" /\ i < Len(d.v) THEN JStr(<<d.v[i + 1]>>)
    ELSE JExc

(* data["candidates"][0]["content"]["parts"][0]["text"] *)
extract_text(data) ==
    GetKey(GetIdx(GetKey(GetKey(GetIdx(GetKey(data, "candidates"), 0),
                                "content"), "parts"), 0), "text")

Truthy(j) ==
    CASE j.t = "null" -> FALSE
      [] j.t = "num" -> j.v # 0
      [] j.t = "str" -> Len(j.v) > 0
      [] j.t = "arr" -> Len(j.v) > 0
      [] j.t = "obj" -> DOMAIN j.v # {}

(* first_word(text): re.search on (text or ""), which raises TypeError
   when text is truthy and no str. *)
first_word(text) ==
    IF ~Truthy(text) THEN Return(<<>>, {})
    ELSE IF text.t = "str" THEN Return(first_word_str(text.v), {})
    ELSE RaiseOther("TypeError", {})

----------------------------------------------------------------------------
(* The AI answer resolver, ask_ai_single_word. *)

(* Mutation: the question is compared without lower-casing. *)
ask_ai_before_post_mut(key_set, question) ==
    IF ~key_set
    THEN IF strip(question) = KNOWN_QUESTION
         THEN Return(KNOWN_ANSWER, {"ask_ai_single_word"})
         ELSE RaiseHTTP(500, "AI provider key not configured",
                        {"ask_ai_single_word"})
    ELSE Post({"ask_ai_single_word"})

(* Lines 97-115: up to the outbound call. *)
ask_ai_before_post(key_set, question) ==
    IF ~key_set
    THEN IF lower(strip(question)) = KNOWN_QUESTION
         THEN Return(KNOWN_ANSWER, {"ask_ai_single_word"})
         ELSE RaiseHTTP(500, "AI provider key not configured",
                        {"ask_ai_single_word"})
    ELSE Post({"ask_ai_single_word"})

(* Mutation: no fallback map after the call. *)
ask_ai_fallback_mut(question) ==
    RaiseHTTP(502, "AI yielded empty answer",
              {"ask_ai_single_word", "first_word"})

(* Lines 128-134: the fallback map after a call that gave no word. *)
ask_ai_fallback(question) ==
    IF lower(strip(question)) = KNOWN_QUESTION
    THEN Return(KNOWN_ANSWER, {"ask_ai_single_word", "first_word"})
    ELSE RaiseHTTP(502, "AI yielded empty answer",
                   {"ask_ai_single_word", "first_word"})

(* Lines 116-134: from the return of requests.post on. *)
ask_ai_after_post(question, out) ==
    IF out.kind = "RequestException"
    THEN RaiseHTTP(502, "AI provider unreachable", {"ask_ai_single_word"})
    ELSE IF out.status_code >= 400
    THEN RaiseHTTP(502, "AI provider error", {"ask_ai_single_word"})
    ELSE IF ~out.is_json
    THEN RaiseOther("JSONDecodeError", {"ask_ai_single_word"})
    ELSE LET text == extract_text(out.data)
         IN IF text.t = "exc"
            THEN RaiseHTTP(502, "AI response parsing failed",
                           {"ask_ai_single_word"})
            ELSE LET word == first_word(text)
                 IN IF word.kind = "exception"
                    THEN RaiseOther(word.name,
                                    {"ask_ai_single_word", "first_word"})
                    ELSE IF Len(word.value) > 0
                    THEN Return(word.value,
                                {"ask_ai_single_word", "first_word"})
                    ELSE ask_ai_fallback(question)

----------------------------------------------------------------------------
(* The exception handlers, the health check and the success envelope. *)

(* Mutation: the error carries no path. *)
http_exception_handler_mut(path, status_code, detail) ==
    [status_code |-> status_code,
     content |-> [is_success |-> FALSE,
                  official_email |-> OFFICIAL_EMAIL,
                  error |-> [code |-> status_code,
                             message |-> detail]]]

http_exception_handler(path, status_code, detail) ==
    [status_code |-> status_code,
     content |-> [is_success |-> FALSE,
                  official_email |-> OFFICIAL_EMAIL,
                  error |-> [code |-> status_code,
                             message |-> detail,
                             path |-> path]]]

validation_exception_handler(path, errors) ==
    [status_code |-> 400,
     content |-> [is_success |-> FALSE,
                  official_email |-> OFFICIAL_EMAIL,
                  error |-> [code |-> 400,
                             message |-> "Request validation failed",
                             details |-> errors,
                             path |-> path]]]

unhandled_exception_handler(path) ==
    [status_code |-> 500,
     content |-> [is_success |-> FALSE,
                  official_email |-> OFFICIAL_EMAIL,
                  error |-> [code |-> 500,
                             message |-> "Internal server error",
                             path |-> path]]]

health_body ==
    [status_code |-> 200,
     content |-> [is_success |-> TRUE, official_email |-> OFFICIAL_EMAIL]]

bfhl_success(data) ==
    [status_code |-> 200,
     content |-> [is_success |-> TRUE,
                  official_email |-> OFFICIAL_EMAIL,
                  data |-> data]]

(* The response the framework sends for the way the handler ended. *)
respond(path, res) ==
    IF res.kind = "return" THEN bfhl_success(res.value)
    ELSE IF res.kind = "http_exception"
    THEN http_exception_handler(path, res.status_code, res.detail)
    ELSE unhandled_exception_handler(path)

----------------------------------------------------------------------------
(* The dispatcher, bfhl. *)

FUNCTIONAL_KEYS == <<"fibonacci", "prime", "lcm", "hcf", "AI">>

provided_keys(r) ==
    LET present(k) == r[k] # None IN SelectSeq(FUNCTIONAL_KEYS, present)

array_size_invalid(key) ==
    CASE key = "prime" -> "prime array size invalid"
      [] key = "lcm" -> "lcm array size invalid"
      [] key = "hcf" -> "hcf array size invalid"

(* Mutation: the upper limit itself is refused. *)
fibonacci_valid_mut(n) == ~(n < 0 \/ n >= MAX_FIB)

fibonacci_valid(n) == ~(n < 0 \/ n > MAX_FIB)

array_valid(arr) == ~(Len(arr) = 0 \/ Len(arr) > MAX_ARR)

question_valid(q) == ~(Len(strip(q)) = 0 \/ Len(q) > MAX_Q)

(* Lines 204-210.  The isinstance test of line 206 cannot fail on a field
   the request model has parsed as Optional[int]. *)
bfhl_fibonacci(n) ==
    IF ~fibonacci_valid(n)
    THEN RaiseHTTP(400, "fibonacci out of allowed range", {})
    ELSE Return(fibonacci_series(n), {"fibonacci_series"})

(* Lines 211-222. *)
bfhl_array(key, arr) ==
    IF ~array_valid(arr)
    THEN RaiseHTTP(400, array_size_invalid(key), {})
    ELSE IF key = "prime" THEN Return(prime_filter(arr), {"is_prime"})
    ELSE IF key = "lcm" THEN Return(lcm_of_list(arr), {"lcm_of_list"})
    ELSE Return(hcf_of_list(arr), {"hcf_of_list"})

(* Lines 223-227. *)
bfhl_ai(key_set, q) ==
    IF ~question_valid(q)
    THEN RaiseHTTP(400, "AI must be non-empty question", {})
    ELSE ask_ai_before_post(key_set, strip(q))

(* Mutation: only the absence of every key is refused. *)
exactly_one_key_mut(r) == Len(provided_keys(r)) >= 1

exactly_one_key(r) == Len(provided_keys(r)) = 1

(* Lines 196-229: bfhl up to its return or to the outbound call.  The key
   is one of the five, so the else of lines 228-229 is never taken. *)
bfhl_body(key_set, r) ==
    IF ~exactly_one_key(r)
    THEN RaiseHTTP(400, "Provide exactly one functional key", {})
    ELSE LET key == provided_keys(r)[1]
         IN IF key = "fibonacci" THEN bfhl_fibonacci(Val(r.fibonacci))
            ELSE IF key \in {"prime", "lcm", "hcf"}
            THEN bfhl_array(key, Val(r[key]))
            ELSE bfhl_ai(key_set, Val(r.AI))


----------------------------------------------------------------------------
(* The inputs: requests and provider outcomes. *)

BFHLRequest(f, p, l, h, a) ==
    [fibonacci |-> f, prime |-> p, lcm |-> l, hcf |-> h, AI |-> a]

NoKeys == BFHLRequest(None, None, None, None, None)

Rep(c, n) == [i \in 1..n |-> c]

FibInputs ==
    ((0 - FibSlack)..FibDense)
    \cup {100 * k : k \in 1..9}
    \cup ((MAX_FIB - FibSlack)..(MAX_FIB + FibSlack))

ElemVals == (0 - ElemMax)..ElemMax

ShortArrs == UNION {[1..k -> ElemVals] : k \in 0..MaxArrLen}

LongLens == (MAX_ARR - ArrSlack)..(MAX_ARR + ArrSlack)

LongArrs ==
    {[i \in 1..k |-> (i % 5) - 1] : k \in LongLens}
    \cup {[i \in 1..k |-> 6 * (1 + (i % 3))] : k \in LongLens}

ExampleArrs == {<<4, 6, 10>>, <<12, 18, 24>>, <<2, 3, 4, 5, 9, 11>>}

Arrs == ShortArrs \cup LongArrs \cup ExampleArrs

PrimeSingles == {<<x>> : x \in (0 - PrimeBelow)..PrimeAbove}

Q_MIXED == <<"W","h","a","t"," ","i","s"," ","t","h","e"," ","c","a","p","i","t","a","l"," ","c","i","t","y"," ","o","f"," ","M","a","h","a","r","a","s","h","t","r","a","?">>
Q_UPPER == <<"W","H","A","T"," ","I","S"," ","T","H","E"," ","C","A","P","I","T","A","L"," ","C","I","T","Y"," ","O","F"," ","M","A","H","A","R","A","S","H","T","R","A","?">>
Q_HI == <<"h","i">>
Q_FRANCE == <<"C","a","p","i","t","a","l"," ","o","f"," ","F","r","a","n","c","e","?">>

Questions ==
    {KNOWN_QUESTION, Q_MIXED, Q_UPPER, Q_HI, Q_FRANCE,
     <<" ", "\t">> \o Q_MIXED \o <<"\n", " ">>,
     SubSeq(KNOWN_QUESTION, 1, Len(KNOWN_QUESTION) - 1),
     SubSeq(KNOWN_QUESTION, 1, 4) \o <<" ">>
         \o SubSeq(KNOWN_QUESTION, 5, Len(KNOWN_QUESTION)),
     <<>>, <<" ", " ", "\t">>, <<"?">>}
    \cup {Rep("a", k) : k \in (MAX_Q - QSlack)..(MAX_Q + QSlack)}
    \cup {Q_MIXED \o Rep(" ", k - Len(Q_MIXED)) :
              k \in (MAX_Q - QSlack)..(MAX_Q + QSlack)}

SingleKeyRequests ==
    {BFHLRequest(Some(n), None, None, None, None) : n \in FibInputs}
    \cup {BFHLRequest(None, Some(a), None, None, None) :
              a \in Arrs \cup PrimeSingles}
    \cup {BFHLRequest(None, None, Some(a), None, None) : a \in Arrs}
    \cup {BFHLRequest(None, None, None, Some(a), None) : a \in Arrs}
    \cup {BFHLRequest(None, None, None, None, Some(q)) : q \in Questions}

(* Every combination of absent, valid and invalid values of the five keys. *)
MixedRequests ==
    {BFHLRequest(f, p, l, h, a) :
        f \in {None, Some(0 - 1), Some(5), Some(MAX_FIB + 1)},
        p \in {None, Some(<<>>), Some(<<2, 3, 4>>)},
        l \in {None, Some(<<>>), Some(<<4, 6>>)},
        h \in {None, Some(<<0>>)},
        a \in {None, Some(<<>>), Some(Q_MIXED), Some(Q_HI)}}

Requests == SingleKeyRequests \cup MixedRequests

(* The provider's response bodies. *)
Candidates(text) ==
    JObj([candidates |-> JArr(<<
        JObj([content |-> JObj([parts |-> JArr(<<
            JObj([text |-> text]) >>)])]) >>)])

(* The text field of a well-shaped body: strings, and values of other types. *)
Texts ==
    <<JStr(<<"M","u","m","b","a","i">>),
      JStr(<<"P","a","r","i","s",".">>),
      JStr(<<"T","h","e"," ","a","n","s","w","e","r"," ","i","s"," ","D","e","l","h","i">>),
      JStr(<<"*","*","c","o","-","o","p","e","r","a","t","i","v","e","*","*">>),
      JStr(<<"4","2"," ","a","p","p","l","e","s">>),
      JStr(<<"?", "!">>), JStr(<<"-", "x">>), JStr(<<" ", "\n">>), JStr(<<>>),
      JNull, JNum(0), JNum(5), JArr(<<>>), JArr(<<JStr(<<"a">>)>>),
      JObj(EmptyObj)>>

MalformedBodies ==
    <<JNull, JArr(<<>>), JStr(<<"o", "k">>), JObj(EmptyObj),
      JObj([error |-> JStr(<<"x">>)]),
      JObj([candidates |-> JNull]),
      JObj([candidates |-> JArr(<<>>)]),
      JObj([candidates |-> JStr(<<"a", "b">>)]),
      JObj([candidates |-> JArr(<<JObj(EmptyObj)>>)]),
      JObj([candidates |-> JArr(<<JObj([content |-> JNull])>>)]),
      JObj([candidates |-> JArr(<<
          JObj([content |-> JObj([parts |-> JArr(<<>>)])]) >>)]),
      JObj([candidates |-> JArr(<<
          JObj([content |-> JObj([parts |-> JArr(<<JObj(EmptyObj)>>)])]) >>)])>>

Bodies == [i \in 1..Len(Texts) |-> Candidates(Texts[i])] \o MalformedBodies

StatusCodes == {200, 201, 399, 400, 404, 429, 500, 503}

(* What requests.post does: it raises RequestException (c = 0), or returns
   status code c with a body that is no JSON (b = 0) or is Bodies[b]. *)
ProviderOutcome(c, b) ==
    IF c = 0
    THEN [kind |-> "RequestException", status_code |-> 0, is_json |-> FALSE,
          data |-> JNull]
    ELSE IF b = 0
    THEN [kind |-> "response", status_code |-> c, is_json |-> FALSE,
          data |-> JNull]
    ELSE [kind |-> "response", status_code |-> c, is_json |-> TRUE,
          data |-> Bodies[b]]

(* What the request model rejects before bfhl runs. *)
ValidationErrors == {"json_invalid", "int_parsing", "list_type", "string_type"}

----------------------------------------------------------------------------
(* The state machine: one request served by the process. *)

Init ==
    /\ GEMINI_API_KEY \in BOOLEAN
    /\ pc = "idle"
    /\ req = [path |-> "", parsed |-> FALSE, body |-> NoKeys]
    /\ provider = None
    /\ outboundCalls = 0
    /\ invoked = {}
    /\ response = None

(* POST /bfhl with a body the request model accepts: bfhl runs to its
   return, to its exception, or to the outbound call of the resolver. *)
bfhl ==
    /\ pc = "idle"
    /\ \E r \in Requests :
         LET res == bfhl_body(GEMINI_API_KEY, r)
         IN /\ req' = [path |-> "/bfhl", parsed |-> TRUE, body |-> r]
            /\ invoked' = res.invoked
            /\ IF res.kind = "post"
               THEN /\ pc' = "calling"
                    /\ outboundCalls' = outboundCalls + 1
                    /\ response' = response
               ELSE /\ pc' = "done"
                    /\ outboundCalls' = outboundCalls
                    /\ response' = respond("/bfhl", res)
    /\ UNCHANGED <<GEMINI_API_KEY, provider>>

(* Mutation: an unreachable provider is called again. *)
provider_responds_retry ==
    /\ pc = "calling"
    /\ \E c \in {0} \cup StatusCodes, b \in 0..Len(Bodies) :
         LET out == ProviderOutcome(c, b)
             res == ask_ai_after_post(strip(Val(req.body.AI)), out)
         IN IF out.kind = "RequestException"
            THEN /\ pc' = "calling"
                 /\ outboundCalls' = outboundCalls + 1
                 /\ UNCHANGED <<provider, invoked, response>>
            ELSE /\ pc' = "done"
                 /\ provider' = Some(out)
                 /\ invoked' = invoked \cup res.invoked
                 /\ response' = respond("/bfhl", res)
                 /\ outboundCalls' = outboundCalls
    /\ UNCHANGED <<GEMINI_API_KEY, req>>

(* requests.post returns or raises: the rest of ask_ai_single_word and of
   bfhl. *)
provider_responds ==
    /\ pc = "calling"
    /\ \E c \in {0} \cup StatusCodes, b \in 0..Len(Bodies) :
         LET out == ProviderOutcome(c, b)
             res == ask_ai_after_post(strip(Val(req.body.AI)), out)
         IN /\ provider' = Some(out)
            /\ invoked' = invoked \cup res.invoked
            /\ response' = respond("/bfhl", res)
    /\ pc' = "done"
    /\ UNCHANGED <<GEMINI_API_KEY, req, outboundCalls>>

(* POST /bfhl with a body the request model rejects. *)
request_validation_error ==
    /\ pc = "idle"
    /\ \E e \in ValidationErrors :
         response' = validation_exception_handler("/bfhl", e)
    /\ req' = [path |-> "/bfhl", parsed |-> FALSE, body |-> NoKeys]
    /\ pc' = "done"
    /\ UNCHANGED <<GEMINI_API_KEY, provider, outboundCalls, invoked>>

(* GET /health. *)
health ==
    /\ pc = "idle"
    /\ req' = [path |-> "/health", parsed |-> FALSE, body |-> NoKeys]
    /\ response' = health_body
    /\ pc' = "done"
    /\ UNCHANGED <<GEMINI_API_KEY, provider, outboundCalls, invoked>>

Next == bfhl \/ provider_responds \/ request_validation_error \/ health

Spec == Init /\ [][Next]_vars


----------------------------------------------------------------------------
(* Vocabulary of the properties, stated without the operators of the model. *)

KeyNames == {"fibonacci", "prime", "lcm", "hcf", "AI"}

PresentKeys(r) == {k \in KeyNames : r[k] # None}

Only(k) == PresentKeys(req.body) = {k}

(* bfhl has run on a parsed request and the response is out. *)
Served == pc = "done" /\ req.path = "/bfhl" /\ req.parsed

Succeeded ==
    /\ response.status_code = 200
    /\ response.content.is_success
    /\ "data" \in DOMAIN response.content

Data == response.content.data

FailedWith(code, message) ==
    /\ response.status_code = code
    /\ ~response.content.is_success
    /\ "error" \in DOMAIN response.content
    /\ response.content.error.code = code
    /\ response.content.error.message = message

(* Non-empty after trimming and at most 300 characters. *)
ValidQuestion(q) ==
    /\ \E i \in 1..Len(q) : q[i] \notin Whitespace
    /\ Len(q) <= 300

SameLetter(c, d) ==
    \/ c = d
    \/ \E i \in 1..26 : c = UpperChars[i] /\ d = LowerChars[i]

(* q is the known question in any letter case, with whitespace around it. *)
IsBenchmark(q) ==
    \E a \in 1..Len(q) :
        /\ a + Len(KNOWN_QUESTION) - 1 <= Len(q)
        /\ \A i \in 1..(a - 1) : q[i] \in Whitespace
        /\ \A i \in 1..Len(KNOWN_QUESTION) :
               SameLetter(q[a + i - 1], KNOWN_QUESTION[i])
        /\ \A i \in (a + Len(KNOWN_QUESTION))..Len(q) : q[i] \in Whitespace

Question == Val(req.body.AI)

(* The provider's outcome, once the call has ended. *)
Outcome == Val(provider)

Unavailable ==
    Outcome.kind = "RequestException" \/ Outcome.status_code >= 400

(* The provider answered with a success status and a JSON body that has a
   string at candidates[0].content.parts[0].text. *)
GaveText ==
    /\ ~Unavailable
    /\ Outcome.is_json
    /\ extract_text(Outcome.data).t = "str"

Text == extract_text(Outcome.data).v

HasWord(t) == \E i \in 1..Len(t) : IsLetter(t[i])

----------------------------------------------------------------------------
(* C1: a request in which none or more than one of the five functional keys
   is present fails with status 400 and the message Provide exactly one
   functional key, whatever the values of its fields, and neither a kernel
   nor the AI resolver is invoked and no outbound call is made. *)
C1_ExactlyOneKeyOrInvalidInput ==
    (Served /\ Cardinality(PresentKeys(req.body)) # 1) =>
        /\ FailedWith(400, "Provide exactly one functional key")
        /\ invoked = {}
        /\ outboundCalls = 0
        /\ provider = None

(* Two keys, each with a valid value, are refused. *)
C1_Witness ==
    /\ Served
    /\ PresentKeys(req.body) = {"fibonacci", "prime"}
    /\ req.body.fibonacci = Some(5)
    /\ req.body.prime = Some(<<2, 3, 4>>)
    /\ FailedWith(400, "Provide exactly one functional key")

(* C4: without a provider key, a request whose only key is AI with a valid
   question succeeds with Mumbai exactly when the trimmed, lower-cased
   question is the known question, fails with status 500 (provider not
   configured) for every other valid question, and makes no outbound call
   in either case. *)
C4_DegradedMode ==
    (~GEMINI_API_KEY /\ req.path = "/bfhl" /\ req.parsed /\ Only("AI")
        /\ ValidQuestion(Question)) =>
        /\ pc = "done"
        /\ outboundCalls = 0
        /\ provider = None
        /\ IF IsBenchmark(Question)
           THEN Succeeded /\ Data = KNOWN_ANSWER
           ELSE FailedWith(500, "AI provider key not configured")

(* The known question in mixed case with whitespace around it is answered. *)
C4_Witness ==
    /\ Served /\ ~GEMINI_API_KEY /\ Only("AI")
    /\ Question = <<" ", "\t">> \o Q_MIXED \o <<"\n", " ">>
    /\ Succeeded /\ Data = KNOWN_ANSWER
    /\ outboundCalls = 0

(* C5: with fibonacci = n as the only key the request succeeds iff
   0 <= n <= 1000, and with prime, lcm or hcf as the only key it succeeds
   iff the array has between 1 and 1000 elements; otherwise it fails with
   status 400. *)
C5_NumericValidation ==
    /\ (Served /\ Only("fibonacci")) =>
           LET n == Val(req.body.fibonacci)
           IN IF 0 <= n /\ n <= 1000
              THEN Succeeded
              ELSE FailedWith(400, "fibonacci out of allowed range")
    /\ \A k \in {"prime", "lcm", "hcf"} :
           (Served /\ Only(k)) =>
               LET len == Len(Val(req.body[k]))
               IN IF 1 <= len /\ len <= 1000
                  THEN Succeeded
                  ELSE /\ response.status_code = 400
                       /\ ~response.content.is_success
                       /\ "data" \notin DOMAIN response.content

(* fibonacci = 1000 succeeds, with 1000 terms. *)
C5_Witness ==
    /\ Served /\ Only("fibonacci")
    /\ Val(req.body.fibonacci) = 1000
    /\ Succeeded /\ Len(Data) = 1000

WellFormedInt(x) ==
    /\ \A k \in 1..Len(x) : 0 <= x[k] /\ x[k] < 10^9
    /\ Len(x) > 0 => x[Len(x)] # 0

SmallValue(x) == IF Len(x) = 0 THEN 0 ELSE x[1]

OfSmallValue(v) ==
    IF v = 0 THEN <<>>
    ELSE IF v < 10^9 THEN <<v>>
    ELSE <<v - 10^9, 1>>

(* C6: for every n in [0, 1000] the Fibonacci sequence of the response has
   exactly n terms, starts 0, 1, and each later term is the exact sum of the
   two terms before it: the sum as Python computes it, which is the machine
   sum wherever the two terms fit a limb, and no limb is out of range. *)
C6_FibonacciSeries ==
    (Served /\ Only("fibonacci") /\ Val(req.body.fibonacci) \in 0..1000) =>
        LET n == Val(req.body.fibonacci)
        IN /\ Succeeded
           /\ Len(Data) = n
           /\ n >= 1 => Data[1] = <<>>
           /\ n >= 2 => Data[2] = <<1>>
           /\ \A i \in 1..n : WellFormedInt(Data[i])
           /\ \A i \in 3..n :
                 /\ Data[i] = IntAdd(Data[i - 1], Data[i - 2])
                 /\ (Len(Data[i - 1]) <= 1 /\ Len(Data[i - 2]) <= 1) =>
                        Data[i] = OfSmallValue(SmallValue(Data[i - 1])
                                               + SmallValue(Data[i - 2]))

(* The 1000 terms of n = 1000, the last of them 24 limbs long, and
   0, 1, 1, 2, 3 at their head. *)
C6_Witness ==
    /\ Served /\ Only("fibonacci")
    /\ Val(req.body.fibonacci) = 1000
    /\ Succeeded
    /\ SubSeq(Data, 1, 5) = << <<>>, <<1>>, <<1>>, <<2>>, <<3>> >>
    /\ Len(Data[1000]) = 24

TrialDivisionPrime(x) == x > 1 /\ \A d \in 2..(x - 1) : x % d # 0

(* C7: with prime as the only key and a valid array, the data are the
   elements of the array that are prime by trial division, in order and
   with repetitions; this covers every single integer in [-1000, 10000]. *)
C7_PrimeFilter ==
    (Served /\ Only("prime") /\ Len(Val(req.body.prime)) \in 1..1000) =>
        /\ Succeeded
        /\ Data = SelectSeq(Val(req.body.prime), TrialDivisionPrime)

(* The example of the specification, and a repeated prime kept twice. *)
C7_Witness ==
    /\ Served /\ Only("prime")
    /\ \/ /\ Val(req.body.prime) = <<2, 3, 4, 5, 9, 11>>
          /\ Data = <<2, 3, 5, 11>>
       \/ /\ Val(req.body.prime) = <<3, 1, 3>>
          /\ Data = <<3, 3>>

Divides(d, x) == IF d = 0 THEN x = 0 ELSE x % d = 0

(* C8: for a non-empty array, zero and negative elements included, the hcf
   divides every element and the lcm is a multiple of the absolute value of
   every element (d divides x when x = k * d for some integer k, so only 0
   is divisible by 0). *)
C8_HcfLcmDivisibility ==
    /\ (Served /\ Only("hcf") /\ Len(Val(req.body.hcf)) \in 1..1000) =>
           /\ Succeeded
           /\ Data >= 0
           /\ \A i \in 1..Len(Val(req.body.hcf)) :
                  Divides(Data, Val(req.body.hcf)[i])
    /\ (Served /\ Only("lcm") /\ Len(Val(req.body.lcm)) \in 1..1000) =>
           /\ Succeeded
           /\ \A i \in 1..Len(Val(req.body.lcm)) :
                  Divides(abs(Val(req.body.lcm)[i]), Data)

(* The examples of the specification. *)
C8_Witness ==
    /\ Served
    /\ \/ Only("hcf") /\ Val(req.body.hcf) = <<12, 18, 24>> /\ Data = 6
       \/ Only("lcm") /\ Val(req.body.lcm) = <<4, 6, 10>> /\ Data = 60

(* C9: a request makes at most one outbound call, and makes it only when
   AI is its only key, the question is valid and the provider key is
   configured; once the provider has answered or failed, the request is
   over with that one call. *)
C9_AtMostOneOutboundCall ==
    /\ outboundCalls <= 1
    /\ outboundCalls = 1 =>
           /\ GEMINI_API_KEY
           /\ req.path = "/bfhl" /\ req.parsed
           /\ Only("AI")
           /\ ValidQuestion(Question)
    /\ pc = "calling" => outboundCalls = 1 /\ provider = None
    /\ provider # None => pc = "done" /\ outboundCalls = 1
    /\ (pc = "done" /\ outboundCalls = 1) => provider # None

(* One call, which failed, and the request is over with status 502. *)
C9_Witness ==
    /\ Served
    /\ outboundCalls = 1
    /\ provider # None
    /\ Outcome.kind = "RequestException"
    /\ FailedWith(502, "AI provider unreachable")

(* C10: the envelope says is_success exactly when the status is 200; a
   success carries no error and, for /bfhl, carries data, which happens
   only for a parsed request with exactly one key; a failure carries an
   error with code, message and path and no data; official_email is the
   configured value in every response, the health check included. *)
C10_Envelope ==
    pc = "done" =>
        LET c == response.content
        IN /\ c.official_email = OFFICIAL_EMAIL
           /\ c.is_success <=> response.status_code = 200
           /\ c.is_success =>
                  /\ "error" \notin DOMAIN c
                  /\ req.path = "/bfhl" =>
                         /\ "data" \in DOMAIN c
                         /\ req.parsed
                         /\ Cardinality(PresentKeys(req.body)) = 1
                  /\ req.path = "/health" => DOMAIN c = {"is_success", "official_email"}
           /\ ~c.is_success =>
                  /\ "data" \notin DOMAIN c
                  /\ "error" \in DOMAIN c
                  /\ {"code", "message", "path"} \subseteq DOMAIN c.error
                  /\ c.error.code = response.status_code
                  /\ c.error.code \in {400, 500, 502}
                  /\ c.error.path = req.path
           /\ (req.path = "/bfhl" /\ ~req.parsed) =>
                  /\ ~c.is_success
                  /\ response.status_code = 400

(* A resolver failure in its envelope. *)
C10_Witness ==
    /\ Served
    /\ response.status_code = 502
    /\ ~response.content.is_success
    /\ response.content.official_email = OFFICIAL_EMAIL
    /\ response.content.error.message = "AI yielded empty answer"

ExposesText == Outcome.is_json /\ extract_text(Outcome.data).t # "exc"

(* C2: with the provider key set, every failure of a valid AI question
   after the call is an upstream failure with status 502: unreachable,
   provider error, response parsing failed (a success status whose body
   does not expose candidates[0].content.parts[0].text) or empty answer (a
   text without a word, for a question that is not the known one); none
   ends as a success or with status 500. *)
C2_LiveFailuresAreUpstream ==
    (Served /\ GEMINI_API_KEY /\ Only("AI") /\ ValidQuestion(Question)
        /\ provider # None) =>
        /\ Outcome.kind = "RequestException" =>
               FailedWith(502, "AI provider unreachable")
        /\ (Outcome.kind = "response" /\ Outcome.status_code >= 400) =>
               FailedWith(502, "AI provider error")
        /\ (~Unavailable /\ ~ExposesText) =>
               FailedWith(502, "AI response parsing failed")
        /\ (GaveText /\ ~HasWord(Text) /\ ~IsBenchmark(Question)) =>
               FailedWith(502, "AI yielded empty answer")
        /\ response.status_code \in {200, 502}

(* C3 as stated: the known question is answered in every configuration and
   for every provider outcome, the provider being unavailable included. *)
C3_BenchmarkAlwaysAnswered ==
    (Served /\ Only("AI") /\ ValidQuestion(Question) /\ IsBenchmark(Question)
        /\ (~GEMINI_API_KEY \/ Unavailable \/ GaveText)) =>
        Succeeded

(* C3, amended: the known question is answered Mumbai without a provider
   key, and with one whenever the provider returns a success status and a
   text, Mumbai standing in for a text without a word; when the provider is
   unreachable or returns an error status the known question fails with
   status 502 like any other; any other question succeeds only on a text of
   the live provider that has a word. *)
C3_BenchmarkAnsweredUnlessUnavailable ==
    (Served /\ Only("AI") /\ ValidQuestion(Question)) =>
        IF IsBenchmark(Question)
        THEN /\ ~GEMINI_API_KEY => Succeeded /\ Data = KNOWN_ANSWER
             /\ (GEMINI_API_KEY /\ GaveText) =>
                    /\ Succeeded
                    /\ IF HasWord(Text)
                       THEN /\ Len(Data) > 0
                            /\ IsLetter(Data[1])
                            /\ \A i \in 1..Len(Data) :
                                   IsLetter(Data[i]) \/ Data[i] = "-"
                       ELSE Data = KNOWN_ANSWER
             /\ (GEMINI_API_KEY /\ Outcome.kind = "RequestException") =>
                    FailedWith(502, "AI provider unreachable")
             /\ (GEMINI_API_KEY /\ Outcome.kind = "response"
                    /\ Outcome.status_code >= 400) =>
                    FailedWith(502, "AI provider error")
        ELSE Succeeded => GEMINI_API_KEY /\ GaveText /\ HasWord(Text)

(* The provider answered the known question with a text without a word,
   and the answer is Mumbai. *)
C3_Witness ==
    /\ Served /\ GEMINI_API_KEY /\ Only("AI")
    /\ IsBenchmark(Question)
    /\ provider # None
    /\ GaveText /\ Text = <<"?", "!">>
    /\ Succeeded /\ Data = KNOWN_ANSWER

=============================================================================
